---- MODULE Spec2Model ----
(***************************************************************************)
(* Model of the tagged_dispatch crate: the TaggedPtr word (src/src/lib.rs) *)
(* and the code generated by #[tagged_dispatch] for an owned enum and for  *)
(* an arena enum (src/tagged_dispatch_macros/src/lib.rs).                  *)
(*                                                                         *)
(* A 64-bit usize is modelled as the set of its set bit positions, a       *)
(* subset of 0..63, so that masks and shifts keep the 64-bit width: a bit  *)
(* shifted past position 63 is lost.                                       *)
(***************************************************************************)
EXTENDS Integers, Sequences, FiniteSets

VARIABLES
    debug,      \* build mode: TRUE when debug assertions are compiled in
    tp,         \* the TaggedPtr::new call of the TaggedPtr specification
    mode,       \* "owned": the enum has no lifetime parameter; "arena": it has one
    mem,        \* the live allocations: address -> the type and content stored there
    vals,       \* the live wrapped values: slot -> the tagged word it holds
    origin,     \* per live value: the variant position and data it was built from
    last,       \* the last operation and what it returned
    builder,    \* arena mode: the arena builder, its backend and whether it owns its region
    bump,       \* arena mode: the byte counters of the bump region
    panic,      \* the panic message once the program has panicked
    ub,         \* TRUE once an operation with undefined behaviour has run
    registry,   \* the enum declaration handed to the macro, and the values built from it
    autotraits, \* per concrete variant type: whether it is Send and whether it is Sync
    regions,    \* the bump regions that exist and who created them
    handles     \* the arena builders that exist and the region each is bound to

vars == <<debug, tp, mode, mem, vals, origin, last, builder, bump, panic, ub,
          registry, autotraits, regions, handles>>

\* the state of the declaration, thread and region specifications
aux == <<registry, autotraits, regions, handles>>

(***************************************************************************)
(* 64-bit words                                                            *)
(***************************************************************************)
WordBits == 0..63

And(a, b) == a \cap b
Or(a, b) == a \cup b
Not(a) == WordBits \ a
Shl(a, n) == {i + n : i \in a} \cap WordBits
Shr(a, n) == {i - n : i \in {j \in a : j >= n}}

\* `tag as usize` for a u8 tag
U8AsUsize(n) == {i \in 0..7 : (n \div (2 ^ i)) % 2 = 1}

RECURSIVE SumBits(_)
SumBits(s) ==
    IF s = {} THEN 0
    ELSE LET i == CHOOSE x \in s : TRUE IN (2 ^ i) + SumBits(s \ {i})

\* `word as u8`: the low eight bits, as a number
UsizeAsU8(w) == SumBits(w \cap (0..7))

\* usize comparison: the highest differing bit decides
WordLess(a, b) ==
    /\ a # b
    /\ LET d == (a \ b) \cup (b \ a)
           top == CHOOSE i \in d : \A j \in d : j <= i
       IN top \in b

(***************************************************************************)
(* TaggedPtr                                                               *)
(***************************************************************************)
TAG_SHIFT == 57
TAG_MASK == Shl(U8AsUsize(127), TAG_SHIFT)
PTR_MASK == Not(TAG_MASK)
MAX_VARIANTS == 128

\* panic messages, word by word
MsgTagRange == <<"Tag", "must", "be", "less", "than", "128", "(7", "bits)">>
MsgHighBits == <<"Pointer", "already", "has", "high", "bits", "set!">>

Ok(w) == [panic |-> <<>>, val |-> <<w>>]
Panic(msg) == [panic |-> <<msg>>, val |-> <<>>]

\* the assertions kept in every build: assert! in place of debug_assert!
TaggedPtr_new_checked(dbg, addr, tag) ==
    IF ~(tag < MAX_VARIANTS) THEN Panic(MsgTagRange)
    ELSE IF And(addr, TAG_MASK) # {} THEN Panic(MsgHighBits)
    ELSE Ok(Or(addr, Shl(U8AsUsize(tag), TAG_SHIFT)))

\* the tag assertion off by one: 128 passes
TaggedPtr_new_offByOne(dbg, addr, tag) ==
    IF dbg /\ ~(tag <= MAX_VARIANTS) THEN Panic(MsgTagRange)
    ELSE IF dbg /\ And(addr, TAG_MASK) # {} THEN Panic(MsgHighBits)
    ELSE Ok(Or(addr, Shl(U8AsUsize(tag), TAG_SHIFT)))

\* TaggedPtr::new under the build mode dbg (debug assertions on or off)
TaggedPtr_new(dbg, addr, tag) ==
    IF dbg /\ ~(tag < MAX_VARIANTS) THEN Panic(MsgTagRange)
    ELSE IF dbg /\ And(addr, TAG_MASK) # {} THEN Panic(MsgHighBits)
    ELSE Ok(Or(addr, Shl(U8AsUsize(tag), TAG_SHIFT)))

\* the tag read with a shift one bit too far
TaggedPtr_tag_shift58(w) == UsizeAsU8(Shr(And(w, TAG_MASK), TAG_SHIFT + 1))

TaggedPtr_tag(w) == UsizeAsU8(Shr(And(w, TAG_MASK), TAG_SHIFT))

\* the address read without masking the tag off
TaggedPtr_ptr_unmasked(w) == w

TaggedPtr_ptr(w) == And(w, PTR_MASK)

TaggedPtr_is_null(w) == TaggedPtr_ptr(w) = {}

(***************************************************************************)
(* Inputs of the TaggedPtr specification                                   *)
(***************************************************************************)
NullAddr == {}

\* addresses with the top 7 bits clear, the null address and the largest one included
LowAddrs == {NullAddr, {0}, {3}, {4}, {3, 4}, {56}, {3, 56}, 0..56}

\* addresses that break the precondition of TaggedPtr::new
HighAddrs == {{57}, {3, 63}, 0..63}

U8 == 0..255

InitPtr ==
    /\ debug \in BOOLEAN
    /\ tp = <<>>
    /\ mode = "ptr"
    /\ mem = <<>>
    /\ vals = <<>>
    /\ origin = <<>>
    /\ last = <<>>
    /\ builder = <<>>
    /\ bump = <<>>
    /\ panic = <<>>
    /\ ub = FALSE
    /\ registry = <<>>
    /\ autotraits = <<>>
    /\ regions = <<>>
    /\ handles = <<>>

\* one call TaggedPtr::new(addr, tag); the result (or the panic) is kept in tp
NewPtr ==
    \E addr \in LowAddrs \cup HighAddrs, tag \in U8 :
        /\ tp = <<>>
        /\ tp' = <<[addr |-> addr, tag |-> tag, res |-> TaggedPtr_new(debug, addr, tag)]>>
        /\ UNCHANGED <<aux, debug, mode, mem, vals, origin, last, builder, bump, panic, ub>>

NextPtr == NewPtr

SpecPtr == InitPtr /\ [][NextPtr]_vars

(***************************************************************************)
(* The variant set and its capabilities: Calculator and Operations of      *)
(* tests/no_dispatch.rs, with one zero-sized variant type added and Named  *)
(* of tests/multiple_traits.rs attached as a second capability (the macro  *)
(* accepts any types and any list of traits).                              *)
(***************************************************************************)
Variants == <<"Adder", "Multiplier", "Zero">>
NumVariants == Len(Variants)
VariantIdx == 0..(NumVariants - 1)

\* the concrete type of the variant declared at 0-based position i
TypeOf(i) == Variants[i + 1]

SizeOf(ty) == IF ty = "Zero" THEN 0 ELSE 8
AlignOf(ty) == IF ty = "Zero" THEN 1 ELSE 4

\* the values of each concrete type used as inputs: <<a, b>>
DataOf(ty) ==
    CASE ty = "Adder" -> {<<3, 4>>, <<2, 3>>}
      [] ty = "Multiplier" -> {<<3, 4>>}
      [] ty = "Zero" -> {<<>>}

\* the capabilities, as the trait definitions list their methods: whether the method is
\* marked #[no_dispatch], whether it has a default body, whether it takes &self
Operations ==
    <<[name |-> "compute", no_dispatch |-> FALSE, default |-> FALSE, receiver |-> TRUE],
      [name |-> "static_info", no_dispatch |-> TRUE, default |-> TRUE, receiver |-> FALSE],
      [name |-> "describe", no_dispatch |-> TRUE, default |-> TRUE, receiver |-> TRUE],
      [name |-> "double", no_dispatch |-> FALSE, default |-> TRUE, receiver |-> TRUE]>>

Named ==
    <<[name |-> "name", no_dispatch |-> FALSE, default |-> FALSE, receiver |-> TRUE]>>

\* the capabilities attached to the enum: #[tagged_dispatch(Operations, Named)]
Traits == <<"Operations", "Named">>

TraitItems(t) == IF t = "Operations" THEN Operations ELSE Named

Items(t) == {TraitItems(t)[k] : k \in 1..Len(TraitItems(t))}

MethodNames == UNION {{m.name : m \in Items(Traits[k])} : k \in 1..Len(Traits)}

\* a filter that keeps the methods marked #[no_dispatch]
dispatch_methods_keepAll(t) == {m.name : m \in Items(t)}

\* process_trait: the methods a forwarding method is generated for
dispatch_methods(t) == {m.name : m \in {x \in Items(t) : ~x.no_dispatch}}

\* the forwarding methods of the wrapped type: one impl block per attached capability
DispatchMethods == UNION {dispatch_methods(Traits[k]) : k \in 1..Len(Traits)}

\* the methods each concrete type writes in its impl blocks
Overrides(ty) ==
    CASE ty = "Adder" -> {"compute", "describe", "name"}
      [] ty = "Multiplier" -> {"compute", "double", "name"}
      [] ty = "Zero" -> {"compute", "name"}

\* Operations::compute of each concrete type
compute(ty, d) ==
    CASE ty = "Adder" -> d[1] + d[2]
      [] ty = "Multiplier" -> d[1] * d[2]
      [] ty = "Zero" -> 0

\* a call of method m on a value of the concrete type ty: ordinary trait resolution
RECURSIVE Impl(_, _, _)

\* the default bodies of the capability; self.m() resolves on the concrete type
DefaultBody(ty, m, d) ==
    CASE m = "static_info" -> <<"Operations trait">>
      [] m = "describe" -> <<"Value is", Impl(ty, "compute", d)>>
      [] m = "double" -> Impl(ty, "compute", d) * 2

\* the bodies the concrete types write themselves
ImplBody(ty, m, d) ==
    CASE m = "compute" -> compute(ty, d)
      [] m = "name" -> ty
      [] m = "describe" -> <<"Adder:", d[1], "+", d[2], "=", Impl(ty, "compute", d)>>
      [] m = "double" -> Impl(ty, "compute", d) * 2

Impl(ty, m, d) == IF m \in Overrides(ty) THEN ImplBody(ty, m, d) ELSE DefaultBody(ty, m, d)

\* what a forwarding method yields when its read was undefined behaviour
NoRet(m) == IF m = "name" THEN "" ELSE 0

Types == {Variants[k] : k \in 1..NumVariants}

\* the concrete types of the tests hold integers only: all of them are Send and Sync
PlainData == [ty \in Types |-> [send |-> TRUE, sync |-> TRUE]]

\* #[derive(Clone)] of the concrete types: a field by field copy
ConcreteClone(ty, d) == IF ty = "Zero" THEN <<>> ELSE <<d[1], d[2]>>

(***************************************************************************)
(* The global allocator behind Box                                         *)
(***************************************************************************)
MaxVals == 2

Slots == 1..MaxVals

\* the addresses the allocator may hand out: non-null, aligned, top bits clear
HeapAddrs == {{3}, {3, 56}}

EmptyHeap == [a \in HeapAddrs |-> <<>>]

IsLive(h, addr) == addr \in DOMAIN h /\ h[addr] # <<>>

\* NonNull::dangling() of a type: its alignment as an address
Dangling(ty) == U8AsUsize(AlignOf(ty))

\* an allocator that may hand out the address of a block that is still allocated
BoxAddrs_live(h, ty) ==
    IF SizeOf(ty) = 0 THEN {Dangling(ty)} ELSE HeapAddrs

\* the addresses Box::new(value) may return for a value of type ty
BoxAddrs(h, ty) ==
    IF SizeOf(ty) = 0 THEN {Dangling(ty)}
    ELSE {a \in HeapAddrs : ~IsLive(h, a)}

\* Box::new: a zero-sized value is not allocated
BoxNew(h, addr, ty, d) ==
    IF SizeOf(ty) = 0 THEN h
    ELSE [h EXCEPT ![addr] = <<[ty |-> ty, data |-> d, owner |-> "box"]>>]

\* freeing what is not a live block of that layout is undefined behaviour
BoxDropUB(h, addr, ty) ==
    /\ SizeOf(ty) # 0
    /\ (~IsLive(h, addr) \/ SizeOf(h[addr][1].ty) # SizeOf(ty))

\* drop(Box::from_raw(addr as *mut ty)): frees the block at addr unless ty is zero-sized
BoxDrop(h, addr, ty) ==
    IF SizeOf(ty) = 0 \/ ~IsLive(h, addr) THEN h
    ELSE [h EXCEPT ![addr] = <<>>]

\* what stands for the bytes read where no object lives
Garbage == <<0, 0>>

\* &*(addr as *const ty): the bytes read, or undefined behaviour when nothing lives there
Deref(h, addr, ty) ==
    IF SizeOf(ty) = 0 THEN [ub |-> FALSE, data |-> <<>>]
    ELSE IF ~IsLive(h, addr) THEN [ub |-> TRUE, data |-> Garbage]
    ELSE [ub |-> SizeOf(h[addr][1].ty) < SizeOf(ty), data |-> h[addr][1].data]

(***************************************************************************)
(* The generated owned type                                                *)
(***************************************************************************)
NoStats == [allocated_bytes |-> 0, chunk_capacity |-> 0]

\* the last operation: which, on which slots, what it returned, how many destructors of
\* concrete values it ran
NoOp == [op |-> "none", src |-> 0, dst |-> 0, method |-> "", ub |-> FALSE, ret |-> 0,
         stats |-> NoStats, dtors |-> 0]

\* TaggedPtr::untagged_ptr, used by the generated Drop
TaggedPtr_untagged_ptr(w) == And(w, Not(Shl(U8AsUsize(127), TAG_SHIFT)))

\* tags counted from one instead of from zero
TagOf_oneBased(i) == (i + 1) % 256

\* the tag the generated code gives the variant at position i: `i as u8`
TagOf(i) == i % 256

\* the word built by the constructor `pub fn #method_name(value)` of variant i
Constructor(dbg, addr, i) == TaggedPtr_new(dbg, addr, TagOf(i))

\* the word built by `impl From<#ty> for #enum_name`
FromImpl(dbg, addr, i) == TaggedPtr_new(dbg, addr, TagOf(i))

\* tag_type(): the tag transmuted to the #[repr(u8)] variant enumeration; a value
\* that is no discriminant of the enumeration is undefined behaviour
tag_type(w) ==
    IF TaggedPtr_tag(w) < NumVariants THEN Variants[TaggedPtr_tag(w) + 1] ELSE "UB"

\* the concrete type a variant of the enumeration wraps: `Adder(Adder)`
VariantType(v) == v

\* a forwarding method that takes the first arm whatever the tag is
Dispatch_firstArm(h, w, m) ==
    LET r == Deref(h, TaggedPtr_ptr(w), TypeOf(0))
    IN IF r.ub THEN [ub |-> TRUE, val |-> NoRet(m)]
       ELSE [ub |-> FALSE, val |-> Impl(TypeOf(0), m, r.data)]

\* forwarding methods that all forward to the first method of the capability
Dispatch_firstMethod(h, w, m) ==
    LET v == tag_type(w) IN
    IF v = "UB" THEN [ub |-> TRUE, val |-> NoRet(m)]
    ELSE LET ty == VariantType(v)
             r == Deref(h, TaggedPtr_ptr(w), ty)
         IN IF r.ub THEN [ub |-> TRUE, val |-> NoRet(m)]
            ELSE [ub |-> FALSE,
                  val |-> Impl(ty, IF m = "name" THEN m ELSE TraitItems("Operations")[1].name,
                               r.data)]

\* the forwarding methods of the second capability keyed by tags counted from one
Dispatch_secondTraitShifted(h, w, m) ==
    LET t == IF m \in dispatch_methods(Traits[1]) THEN TaggedPtr_tag(w)
             ELSE (TaggedPtr_tag(w) + 1) % NumVariants
        ty == TypeOf(t)
        r == Deref(h, TaggedPtr_ptr(w), ty)
    IN IF r.ub THEN [ub |-> TRUE, val |-> NoRet(m)]
       ELSE [ub |-> FALSE, val |-> Impl(ty, m, r.data)]

\* the generated forwarding method m on the word w
Dispatch(h, w, m) ==
    LET v == tag_type(w) IN
    IF v = "UB" THEN [ub |-> TRUE, val |-> NoRet(m)]
    ELSE LET ty == VariantType(v)
             r == Deref(h, TaggedPtr_ptr(w), ty)
         IN IF r.ub THEN [ub |-> TRUE, val |-> NoRet(m)]
            ELSE [ub |-> FALSE, val |-> Impl(ty, m, r.data)]

MsgInvalidTag == <<"Invalid", "tag">>

\* the state after the enum and its capability are declared; mode is the kind of enum
Init ==
    /\ debug \in BOOLEAN
    /\ tp = <<>>
    /\ mode \in {"owned", "arena"}
    /\ mem = EmptyHeap
    /\ vals = [s \in Slots |-> <<>>]
    /\ origin = [s \in Slots |-> <<>>]
    /\ last = NoOp
    /\ builder = <<>>
    /\ bump = NoStats
    /\ panic = <<>>
    /\ ub = FALSE
    /\ registry = <<>>
    /\ autotraits = PlainData
    /\ regions = <<>>
    /\ handles = <<>>

\* the common tail of the constructor and of From: allocate, tag, wrap
Build(s, i, d, addr, r, path) ==
    /\ mem' = BoxNew(mem, addr, TypeOf(i), d)
    /\ IF r.panic # <<>>
       THEN /\ panic' = r.panic
            /\ UNCHANGED <<vals, origin>>
       ELSE /\ vals' = [vals EXCEPT ![s] = r.val]
            /\ origin' = [origin EXCEPT ![s] = <<[variant |-> i, data |-> d]>>]
            /\ UNCHANGED panic
    /\ last' = [NoOp EXCEPT !.op = path, !.dst = s]
    /\ UNCHANGED <<aux, debug, tp, mode, builder, bump, ub>>

\* Shape::variant(value)
Construct(s, i, d, addr) ==
    /\ mode = "owned" /\ panic = <<>> /\ vals[s] = <<>>
    /\ addr \in BoxAddrs(mem, TypeOf(i))
    /\ Build(s, i, d, addr, Constructor(debug, addr, i), "new")

\* Shape::from(value)
FromConv(s, i, d, addr) ==
    /\ mode = "owned" /\ panic = <<>> /\ vals[s] = <<>>
    /\ addr \in BoxAddrs(mem, TypeOf(i))
    /\ Build(s, i, d, addr, FromImpl(debug, addr, i), "from")

\* a clone that copies the word instead of the pointee
CloneOf_shallow(h, dbg, w, addr) ==
    [res |-> Ok(w), mem |-> h,
     data |-> Deref(h, TaggedPtr_ptr(w), TypeOf(TaggedPtr_tag(w))).data, ub |-> FALSE]

\* a clone whose every arm re-wraps through the constructor of the first variant
CloneOf_firstCtor(h, dbg, w, addr) ==
    LET t == TaggedPtr_tag(w)
        ty == TypeOf(t)
        r == Deref(h, TaggedPtr_ptr(w), ty)
        cloned == ConcreteClone(ty, r.data)
    IN [res |-> Constructor(dbg, addr, 0), mem |-> BoxNew(h, addr, ty, cloned),
        data |-> cloned, ub |-> r.ub]

\* the clone of the word w placed at addr: the new word, the mem after it, whether it was UB
CloneOf(h, dbg, w, addr) ==
    LET t == TaggedPtr_tag(w)
        ty == TypeOf(t)
        r == Deref(h, TaggedPtr_ptr(w), ty)
        cloned == ConcreteClone(ty, r.data)
    IN [res |-> Constructor(dbg, addr, t), mem |-> BoxNew(h, addr, ty, cloned),
        data |-> cloned, ub |-> r.ub]

\* d = s.clone()
Clone(s, d, addr) ==
    /\ mode = "owned" /\ panic = <<>> /\ vals[s] # <<>> /\ vals[d] = <<>>
    /\ LET w == vals[s][1]
           t == TaggedPtr_tag(w)
       IN IF t >= NumVariants
          THEN /\ panic' = <<MsgInvalidTag>>
               /\ UNCHANGED <<mem, vals, origin, ub>>
          ELSE /\ addr \in BoxAddrs(mem, TypeOf(t))
               /\ LET c == CloneOf(mem, debug, w, addr) IN
                    /\ mem' = c.mem
                    /\ ub' = (ub \/ c.ub)
                    /\ IF c.res.panic # <<>>
                       THEN /\ panic' = c.res.panic
                            /\ UNCHANGED <<vals, origin>>
                       ELSE /\ vals' = [vals EXCEPT ![d] = c.res.val]
                            /\ origin' = [origin EXCEPT ![d] = origin[s]]
                            /\ UNCHANGED panic
    /\ last' = [NoOp EXCEPT !.op = "clone", !.src = s, !.dst = d]
    /\ UNCHANGED <<aux, debug, tp, mode, builder, bump>>

\* a drop that hands the tagged word, not the untagged address, to Box::from_raw
DropOf_tagged(h, w) ==
    IF TaggedPtr_is_null(w) THEN [mem |-> h, ub |-> FALSE, dtors |-> {}]
    ELSE LET ty == TypeOf(TaggedPtr_tag(w))
         IN [mem |-> BoxDrop(h, w, ty), ub |-> BoxDropUB(h, w, ty),
             dtors |-> {[ty |-> ty, addr |-> w]}]

\* a drop that forgets the value: nothing is run and nothing is freed
DropOf_forget(h, w) == [mem |-> h, ub |-> FALSE, dtors |-> {}]

\* a drop without the test for the null address
DropOf_noNullCheck(h, w) ==
    LET ty == TypeOf(TaggedPtr_tag(w))
        p == TaggedPtr_untagged_ptr(w)
    IN [mem |-> BoxDrop(h, p, ty), ub |-> BoxDropUB(h, p, ty),
        dtors |-> {[ty |-> ty, addr |-> p]}]

\* the generated Drop::drop on the word w: the mem after it, whether it was UB, and the
\* destructors it ran, each with the type it ran as and the address it ran on
DropOf(h, w) ==
    IF TaggedPtr_is_null(w) THEN [mem |-> h, ub |-> FALSE, dtors |-> {}]
    ELSE LET ty == TypeOf(TaggedPtr_tag(w))
             p == TaggedPtr_untagged_ptr(w)
         IN [mem |-> BoxDrop(h, p, ty), ub |-> BoxDropUB(h, p, ty),
             dtors |-> {[ty |-> ty, addr |-> p]}]

\* the value in slot s goes out of scope
Drop(s) ==
    /\ mode = "owned" /\ panic = <<>> /\ vals[s] # <<>>
    /\ LET w == vals[s][1] IN
         IF ~TaggedPtr_is_null(w) /\ TaggedPtr_tag(w) >= NumVariants
         THEN /\ panic' = <<MsgInvalidTag>>
              /\ last' = [NoOp EXCEPT !.op = "drop", !.src = s]
              /\ UNCHANGED <<mem, ub>>
         ELSE /\ mem' = DropOf(mem, w).mem
              /\ ub' = (ub \/ DropOf(mem, w).ub)
              /\ last' = [NoOp EXCEPT !.op = "drop", !.src = s,
                                      !.dtors = Cardinality(DropOf(mem, w).dtors)]
              /\ UNCHANGED panic
    /\ vals' = [vals EXCEPT ![s] = <<>>]
    /\ origin' = [origin EXCEPT ![s] = <<>>]
    /\ UNCHANGED <<aux, debug, tp, mode, builder, bump>>

\* s.m(), on an owned or an arena value
Call(s, m) ==
    /\ panic = <<>> /\ vals[s] # <<>>
    /\ LET r == Dispatch(mem, vals[s][1], m) IN
         /\ last' = [NoOp EXCEPT !.op = "call", !.src = s, !.method = m,
                                 !.ub = r.ub, !.ret = r.val]
         /\ ub' = (ub \/ r.ub)
    /\ UNCHANGED <<aux, debug, tp, mode, mem, vals, origin, builder, bump, panic>>

AnyAddrs == HeapAddrs \cup {Dangling(TypeOf(i)) : i \in VariantIdx}

NextOwned ==
    \/ \E s \in Slots, i \in VariantIdx, addr \in AnyAddrs :
         \E d \in DataOf(TypeOf(i)) : Construct(s, i, d, addr)
    \/ \E s \in Slots, i \in VariantIdx, addr \in AnyAddrs :
         \E d \in DataOf(TypeOf(i)) : FromConv(s, i, d, addr)
    \/ \E s \in Slots, d \in Slots, addr \in AnyAddrs : Clone(s, d, addr)
    \/ \E s \in Slots : Drop(s)
    \/ \E s \in Slots, m \in DispatchMethods : Call(s, m)

(***************************************************************************)
(* The generated arena type and its builder                                *)
(***************************************************************************)
\* bytes of one chunk of the bump region
ChunkSize == 16

\* Bump::alloc accounting: a chunk is added when the current one has no room
BumpAlloc(b, ty) ==
    IF SizeOf(ty) = 0 THEN b
    ELSE IF b.chunk_capacity >= SizeOf(ty)
         THEN [b EXCEPT !.chunk_capacity = @ - SizeOf(ty)]
         ELSE [allocated_bytes |-> b.allocated_bytes + ChunkSize,
               chunk_capacity |-> ChunkSize - SizeOf(ty)]

\* the addresses the allocator arm of the builder may return for a value of type ty:
\* typed_arena keeps zero-sized values at the dangling address, a bump region
\* hands out its current position for them, which is not specified
ArenaAddrs(bld, h, ty) ==
    IF SizeOf(ty) # 0 THEN {a \in HeapAddrs : ~IsLive(h, a)}
    ELSE IF bld.kind = "Typed" THEN {Dangling(ty)}
    ELSE {Dangling(ty), {3}}

\* arena.alloc(value) of either backend: the value is placed in the builder's region; a
\* zero-sized value takes no room
ArenaAlloc(h, addr, ty, d) ==
    IF SizeOf(ty) = 0 THEN h
    ELSE [h EXCEPT ![addr] = <<[ty |-> ty, data |-> d, owner |-> "arena"]>>]

\* the blocks of the builder's region are given back
RegionFree(h) ==
    [a \in DOMAIN h |-> IF IsLive(h, a) /\ h[a][1].owner = "arena" THEN <<>> ELSE h[a]]

\* the objects the builder's region holds, each with its type and its address (values of
\* a zero-sized type occupy no block and are not listed)
RegionBlocks(h) ==
    {[ty |-> h[a][1].ty, addr |-> a] :
        a \in {x \in DOMAIN h : IsLive(h, x) /\ h[x][1].owner = "arena"}}

\* the builder is gone and its region is not freed: the blocks stay allocated, to who
RegionKeep(h, who) ==
    [a \in DOMAIN h |->
        IF IsLive(h, a) /\ h[a][1].owner = "arena"
        THEN <<[h[a][1] EXCEPT !.owner = who]>> ELSE h[a]]

\* Bump::new(): no chunk is allocated before the first allocation
BumpNew == NoStats

\* Bump::reset(): every chunk but the current one is freed, the current one is emptied,
\* and allocated_bytes becomes the size of that chunk
BumpReset(b) ==
    IF b.allocated_bytes = 0 THEN b
    ELSE [allocated_bytes |-> ChunkSize, chunk_capacity |-> ChunkSize]

\* the word built by the builder method `pub fn #method_name(&'a self, value)`
BuilderMethod(dbg, addr, i) == TaggedPtr_new(dbg, addr, TagOf(i))

\* stats() of the builder
Stats(bld, b) == IF bld.kind = "Typed" THEN NoStats ELSE b

\* with_bumpalo(), with_external_bumpalo(arena), with_typed_arena(); new() is with_bumpalo()
BuilderKinds ==
    {[kind |-> "Bumpalo", owned |-> TRUE], [kind |-> "Bumpalo", owned |-> FALSE],
     [kind |-> "Typed", owned |-> TRUE]}

\* a builder was made and is still in scope
HasBuilder == Len(builder) = 1

ArenaBuilderNew(k) ==
    /\ mode = "arena" /\ panic = <<>> /\ builder = <<>>
    /\ builder' = <<k>>
    /\ bump' = BumpNew
    /\ last' = [NoOp EXCEPT !.op = "builder"]
    /\ UNCHANGED <<aux, debug, tp, mode, mem, vals, origin, panic, ub>>

\* builder.variant(value)
ArenaConstruct(s, i, d, addr) ==
    /\ mode = "arena" /\ panic = <<>> /\ HasBuilder /\ vals[s] = <<>>
    /\ addr \in ArenaAddrs(builder[1], mem, TypeOf(i))
    /\ mem' = ArenaAlloc(mem, addr, TypeOf(i), d)
    /\ bump' = IF builder[1].kind = "Bumpalo" THEN BumpAlloc(bump, TypeOf(i)) ELSE bump
    /\ LET r == BuilderMethod(debug, addr, i) IN
         IF r.panic # <<>>
         THEN /\ panic' = r.panic
              /\ UNCHANGED <<vals, origin>>
         ELSE /\ vals' = [vals EXCEPT ![s] = r.val]
              /\ origin' = [origin EXCEPT ![s] = <<[variant |-> i, data |-> d]>>]
              /\ UNCHANGED panic
    /\ last' = [NoOp EXCEPT !.op = "arena_new", !.dst = s]
    /\ UNCHANGED <<aux, debug, tp, mode, builder, ub>>

\* a copy that keeps the address and loses the tag
CopyOf_untagged(h, b, w) == [word |-> TaggedPtr_ptr(w), mem |-> h, bump |-> b]

\* a copy that places a second object in the region, as the owned Clone does on the heap
CopyOf_deep(h, b, w) ==
    LET ty == TypeOf(TaggedPtr_tag(w))
        free == {a \in HeapAddrs : ~IsLive(h, a)}
    IN IF SizeOf(ty) = 0 \/ free = {} THEN [word |-> w, mem |-> h, bump |-> b]
       ELSE LET a == CHOOSE x \in free : TRUE
            IN [word |-> Or(a, Shl(U8AsUsize(TaggedPtr_tag(w)), TAG_SHIFT)),
                mem |-> BoxNew(h, a, ty, h[TaggedPtr_ptr(w)][1].data),
                bump |-> BumpAlloc(b, ty)]

\* `impl Copy`, and Clone as `*self`: the copy of the word w, and the memory and counters after it
CopyOf(h, b, w) == [word |-> w, mem |-> h, bump |-> b]

\* let d = s;
Copy(s, d) ==
    /\ mode = "arena" /\ panic = <<>> /\ vals[s] # <<>> /\ vals[d] = <<>>
    /\ LET c == CopyOf(mem, bump, vals[s][1]) IN
         /\ vals' = [vals EXCEPT ![d] = <<c.word>>]
         /\ mem' = c.mem
         /\ bump' = c.bump
    /\ origin' = [origin EXCEPT ![d] = origin[s]]
    /\ last' = [NoOp EXCEPT !.op = "copy", !.src = s, !.dst = d]
    /\ UNCHANGED <<aux, debug, tp, mode, builder, panic, ub>>

\* an arena value goes out of scope: no Drop is generated
ScopeEnd(s) ==
    /\ mode = "arena" /\ panic = <<>> /\ vals[s] # <<>>
    /\ vals' = [vals EXCEPT ![s] = <<>>]
    /\ origin' = [origin EXCEPT ![s] = <<>>]
    /\ last' = [NoOp EXCEPT !.op = "scope_end", !.src = s]
    /\ UNCHANGED <<aux, debug, tp, mode, mem, builder, bump, panic, ub>>

\* builder.stats()
GetStats ==
    /\ mode = "arena" /\ panic = <<>> /\ HasBuilder
    /\ last' = [NoOp EXCEPT !.op = "stats", !.stats = Stats(builder[1], bump)]
    /\ UNCHANGED <<aux, debug, tp, mode, mem, vals, origin, builder, bump, panic, ub>>

MsgCannotReset == <<"Cannot", "reset", "builder", "using", "external", "arena">>

\* a reset that resets the region first and looks at `owned` afterwards
ResetOf_resetThenPanic(bld, h, b) ==
    IF bld.kind = "Typed"
    THEN [panic |-> <<>>, mem |-> RegionFree(h), bump |-> b, dtors |-> RegionBlocks(h)]
    ELSE [panic |-> IF bld.owned THEN <<>> ELSE <<MsgCannotReset>>,
          mem |-> RegionFree(h), bump |-> BumpReset(b), dtors |-> {}]

\* a reset that does nothing on a borrowed region
ResetOf_silent(bld, h, b) ==
    IF bld.kind = "Typed"
    THEN [panic |-> <<>>, mem |-> RegionFree(h), bump |-> b, dtors |-> RegionBlocks(h)]
    ELSE IF bld.owned
    THEN [panic |-> <<>>, mem |-> RegionFree(h), bump |-> BumpReset(b), dtors |-> {}]
    ELSE [panic |-> <<>>, mem |-> h, bump |-> b, dtors |-> {}]

\* a reset whose bump region drops the objects it holds, as a typed arena does
ResetOf_bumpDrops(bld, h, b) ==
    IF bld.kind = "Typed"
    THEN [panic |-> <<>>, mem |-> RegionFree(h), bump |-> b, dtors |-> RegionBlocks(h)]
    ELSE IF bld.owned
    THEN [panic |-> <<>>, mem |-> RegionFree(h), bump |-> BumpReset(b),
          dtors |-> RegionBlocks(h)]
    ELSE [panic |-> <<MsgCannotReset>>, mem |-> h, bump |-> b, dtors |-> {}]

\* the body of reset(): the typed arenas are replaced by new ones, and the old ones, as
\* they are dropped, drop every object they hold; an owned bump region is reset, which
\* runs no destructor; a borrowed one makes the call panic. dtors is the set of objects
\* whose destructor ran
ResetOf(bld, h, b) ==
    IF bld.kind = "Typed"
    THEN [panic |-> <<>>, mem |-> RegionFree(h), bump |-> b, dtors |-> RegionBlocks(h)]
    ELSE IF bld.owned
    THEN [panic |-> <<>>, mem |-> RegionFree(h), bump |-> BumpReset(b), dtors |-> {}]
    ELSE [panic |-> <<MsgCannotReset>>, mem |-> h, bump |-> b, dtors |-> {}]

\* a reset that takes &self: callable while values of the builder are in use
ExclusiveBorrow_shared(v) == TRUE

\* `&mut self` can be had only when no borrow `&'a self` is alive, and each value
\* Enum<'a> a builder method returned keeps that borrow alive while it is usable
ExclusiveBorrow(v) == \A s \in DOMAIN v : v[s] = <<>>

\* a clear that returns without a word when the region is borrowed
ClearOf_silent(bld, h, b) == ResetOf_silent(bld, h, b)

\* the body of clear(): `self.reset()`
ClearOf(bld, h, b) == ResetOf(bld, h, b)

\* a call of reset() or clear(), r being what the body of the method does
ResetBody(name, r) ==
    /\ mode = "arena" /\ panic = <<>> /\ HasBuilder
    /\ ExclusiveBorrow(vals)
    /\ panic' = r.panic
    /\ mem' = r.mem
    /\ bump' = r.bump
    /\ last' = [NoOp EXCEPT !.op = name, !.dtors = Cardinality(r.dtors)]
    /\ UNCHANGED <<aux, debug, tp, mode, vals, origin, builder, ub>>

\* builder.reset()
Reset == HasBuilder /\ ResetBody("reset", ResetOf(builder[1], mem, bump))

\* builder.clear()
Clear == HasBuilder /\ ResetBody("clear", ClearOf(builder[1], mem, bump))

\* the builder goes out of scope: typed arenas are dropped with it, and drop what they
\* hold; the Bump of with_bumpalo() was leaked and stays allocated, a borrowed Bump stays
\* with its owner
DropBuilder ==
    /\ mode = "arena" /\ panic = <<>> /\ HasBuilder
    /\ ExclusiveBorrow(vals)
    /\ mem' = IF builder[1].kind = "Typed" THEN RegionFree(mem)
              ELSE IF builder[1].owned THEN RegionKeep(mem, "leaked")
              ELSE RegionKeep(mem, "user")
    /\ builder' = <<builder[1], "dropped">>
    /\ last' = [NoOp EXCEPT !.op = "drop_builder",
                            !.dtors = IF builder[1].kind = "Typed"
                                      THEN Cardinality(RegionBlocks(mem)) ELSE 0]
    /\ UNCHANGED <<aux, debug, tp, mode, vals, origin, bump, panic, ub>>

NextArena ==
    \/ Reset
    \/ Clear
    \/ DropBuilder
    \/ \E k \in BuilderKinds : ArenaBuilderNew(k)
    \/ \E s \in Slots, i \in VariantIdx, addr \in AnyAddrs :
         \E d \in DataOf(TypeOf(i)) : ArenaConstruct(s, i, d, addr)
    \/ \E s \in Slots, d \in Slots : Copy(s, d)
    \/ \E s \in Slots : ScopeEnd(s)
    \/ GetStats

(***************************************************************************)
(* Derived comparison of wrapped values, on (tag, address)                 *)
(***************************************************************************)
PartialEq_eq(a, b) ==
    TaggedPtr_tag(a) = TaggedPtr_tag(b) /\ TaggedPtr_ptr(a) = TaggedPtr_ptr(b)

Ord_cmp(a, b) ==
    IF TaggedPtr_tag(a) # TaggedPtr_tag(b)
    THEN (IF TaggedPtr_tag(a) < TaggedPtr_tag(b) THEN "Less" ELSE "Greater")
    ELSE IF TaggedPtr_ptr(a) = TaggedPtr_ptr(b) THEN "Equal"
    ELSE IF WordLess(TaggedPtr_ptr(a), TaggedPtr_ptr(b)) THEN "Less" ELSE "Greater"

\* slice::sort with the derived Ord: a stable sort, here by insertion
RECURSIVE InsertSorted(_, _)
InsertSorted(x, seq) ==
    IF seq = <<>> THEN <<x>>
    ELSE IF Ord_cmp(x.w, Head(seq).w) = "Less" THEN <<x>> \o seq
    ELSE <<Head(seq)>> \o InsertSorted(x, Tail(seq))

RECURSIVE SortSeq(_)
SortSeq(seq) ==
    IF seq = <<>> THEN <<>>
    ELSE InsertSorted(seq[Len(seq)], SortSeq(SubSeq(seq, 1, Len(seq) - 1)))

\* the live values as a Vec, in slot order
RECURSIVE LiveFrom(_)
LiveFrom(s) ==
    IF s > MaxVals THEN <<>>
    ELSE (IF vals[s] = <<>> THEN <<>> ELSE <<[w |-> vals[s][1], o |-> origin[s][1]]>>)
         \o LiveFrom(s + 1)

\* the values are collected into a Vec and the Vec is sorted
Sort ==
    /\ panic = <<>>
    /\ LET sorted == SortSeq(LiveFrom(1)) IN
         /\ vals' = [s \in Slots |-> IF s <= Len(sorted) THEN <<sorted[s].w>> ELSE <<>>]
         /\ origin' = [s \in Slots |-> IF s <= Len(sorted) THEN <<sorted[s].o>> ELSE <<>>]
    /\ last' = [NoOp EXCEPT !.op = "sort"]
    /\ UNCHANGED <<aux, debug, tp, mode, mem, builder, bump, panic, ub>>

Next == NextOwned \/ NextArena \/ Sort

Spec == Init /\ [][Next]_vars

(***************************************************************************)
(* Values wrapped by hand in the module that declares the enum, where the  *)
(* field of the generated tuple struct is accessible                       *)
(***************************************************************************)
\* the tags such code may put into the word: those of the variants, and some that
\* belong to no variant
RawTags == {1, 5}

InitRaw == Init /\ mode = "owned"

\* Enum(TaggedPtr::new(Box::into_raw(Box::new(value)) as *mut (), tag))
FromRaw(s, i, d, addr, tag) ==
    /\ mode = "owned" /\ panic = <<>> /\ vals[s] = <<>>
    /\ addr \in BoxAddrs(mem, TypeOf(i))
    /\ Build(s, i, d, addr, TaggedPtr_new(debug, addr, tag), "raw")

\* Enum(TaggedPtr::new(core::ptr::null_mut(), tag))
FromNull(s, tag) ==
    /\ mode = "owned" /\ panic = <<>> /\ vals[s] = <<>>
    /\ LET r == TaggedPtr_new(debug, NullAddr, tag) IN
         /\ r.panic = <<>>
         /\ vals' = [vals EXCEPT ![s] = r.val]
    /\ origin' = [origin EXCEPT ![s] = <<[variant |-> tag, data |-> <<>>]>>]
    /\ last' = [NoOp EXCEPT !.op = "null", !.dst = s]
    /\ UNCHANGED <<aux, debug, tp, mode, mem, builder, bump, panic, ub>>

\* what a build may make of the forwarding method m on the word w. tag_type() transmutes
\* the tag to the #[repr(u8)] enumeration; for a tag of no variant that is undefined
\* behaviour, and the match on it, which has an arm for each variant and no other, may
\* take any of its arms or none
DispatchOutcomes(h, w, m) ==
    IF tag_type(w) # "UB" THEN {Dispatch(h, w, m)}
    ELSE {[ub |-> TRUE, val |-> NoRet(m)]}
         \cup {[ub |-> TRUE, val |-> Impl(ty, m, Deref(h, TaggedPtr_ptr(w), ty).data)] :
                  ty \in Types}

\* s.m() on a value wrapped by hand
RawCall(s, m) ==
    /\ mode = "owned" /\ panic = <<>> /\ vals[s] # <<>>
    /\ \E r \in DispatchOutcomes(mem, vals[s][1], m) :
         /\ last' = [NoOp EXCEPT !.op = "call", !.src = s, !.method = m,
                                 !.ub = r.ub, !.ret = r.val]
         /\ ub' = (ub \/ r.ub)
    /\ UNCHANGED <<aux, debug, tp, mode, mem, vals, origin, builder, bump, panic>>

NextRaw ==
    \/ \E s \in Slots, i \in VariantIdx, addr \in AnyAddrs, tag \in RawTags :
         \E d \in DataOf(TypeOf(i)) : FromRaw(s, i, d, addr, tag)
    \/ \E s \in Slots, tag \in RawTags : FromNull(s, tag)
    \/ \E s \in Slots, m \in DispatchMethods : RawCall(s, m)
    \/ \E s \in Slots, d \in Slots, addr \in AnyAddrs : Clone(s, d, addr)
    \/ \E s \in Slots : Drop(s)

SpecRaw == InitRaw /\ [][NextRaw]_vars

(***************************************************************************)
(* The forwarding method generated from the signature of a trait method    *)
(***************************************************************************)
MaxParams == 2

\* the first input of a trait method: a receiver, or none for an associated function
Receivers == {"&self", "&mut self", "self", "none"}

\* a typed input: `a: i32`, `b: u8`, or one whose pattern is not an identifier, `_: i32`
ParamChoices ==
    {[pat |-> "ident", name |-> "a", ty |-> "i32"],
     [pat |-> "ident", name |-> "b", ty |-> "u8"],
     [pat |-> "wild", name |-> "_", ty |-> "i32"]}

ParamLists == UNION {[1..n -> ParamChoices] : n \in 0..MaxParams}

Outputs == {"", "-> i32"}

\* the signatures of the trait methods used as inputs
MethodSigs == [receiver : Receivers, params : ParamLists, output : Outputs]

\* method.sig.inputs: the receiver, if any, then the typed inputs
SigInputs(sig) ==
    IF sig.receiver = "none" THEN sig.params
    ELSE <<[pat |-> "receiver", name |-> sig.receiver, ty |-> "Self"]>> \o sig.params

\* the names of the inputs whose pattern is an identifier
RECURSIVE arg_names(_)
arg_names(args) ==
    IF args = <<>> THEN <<>>
    ELSE (IF Head(args).pat = "ident" THEN <<Head(args).name>> ELSE <<>>)
         \o arg_names(Tail(args))

\* generate_dispatch_method: `pub fn #method_name(&self #(, #args)*) #output` whose arms
\* call `ptr.#method_name(#(#arg_names),*)`; args is inputs.iter().skip(1)
generate_dispatch_method(sig) ==
    LET inputs == SigInputs(sig)
        args == IF inputs = <<>> THEN <<>> ELSE Tail(inputs)
    IN [receiver |-> "&self", params |-> args, output |-> sig.output,
        call |-> arg_names(args)]

InitSig ==
    /\ debug \in BOOLEAN
    /\ tp = <<>>
    /\ mode = "sig"
    /\ mem = <<>>
    /\ vals = <<>>
    /\ origin = <<>>
    /\ last = <<>>
    /\ builder = <<>>
    /\ bump = <<>>
    /\ panic = <<>>
    /\ ub = FALSE
    /\ registry = <<>>
    /\ autotraits = <<>>
    /\ regions = <<>>
    /\ handles = <<>>

\* a trait with one method of signature sig, not marked #[no_dispatch], is declared
TraitMethod(sig) ==
    /\ registry = <<>>
    /\ registry' = <<[sig |-> sig, gen |-> <<>>]>>
    /\ UNCHANGED <<debug, tp, mode, mem, vals, origin, last, builder, bump, panic, ub,
                   autotraits, regions, handles>>

\* the macro expands: the forwarding method of the declared method is generated
Expand ==
    /\ Len(registry) = 1 /\ registry[1].gen = <<>>
    /\ registry' = <<[registry[1] EXCEPT !.gen = <<generate_dispatch_method(registry[1].sig)>>]>>
    /\ UNCHANGED <<debug, tp, mode, mem, vals, origin, last, builder, bump, panic, ub,
                   autotraits, regions, handles>>

NextSig ==
    \/ \E sig \in MethodSigs : TraitMethod(sig)
    \/ Expand

SpecSig == InitSig /\ [][NextSig]_vars

(***************************************************************************)
(* Owned values and threads                                                *)
(***************************************************************************)
\* the unit type is Send and Sync
UnitAuto == [send |-> TRUE, sync |-> TRUE]

\* unsafe impl<T: Send> Send for TaggedPtr<T>, unsafe impl<T: Sync> Sync for TaggedPtr<T>
TaggedPtr_auto(t) == [send |-> t.send, sync |-> t.sync]

\* the auto traits of the generated `struct Enum(TaggedPtr<()>)`: those of its one field,
\* whose type parameter is the unit type whatever the variant types are
Owned_auto(variantAuto) == TaggedPtr_auto(UnitAuto)

\* what the concrete variant types may be: plain data, or Multiplier holding an Rc
\* (neither Send nor Sync), or Multiplier holding a Cell (Send, not Sync)
AutoTraitChoices ==
    {PlainData,
     [PlainData EXCEPT !["Multiplier"] = [send |-> FALSE, sync |-> FALSE]],
     [PlainData EXCEPT !["Multiplier"] = [send |-> TRUE, sync |-> FALSE]]}

\* the thread whose stack holds slot s
ThreadOf(s) == s % 2

InitThread ==
    /\ debug \in BOOLEAN
    /\ tp = <<>>
    /\ mode = "owned"
    /\ mem = EmptyHeap
    /\ vals = [s \in Slots |-> <<>>]
    /\ origin = [s \in Slots |-> <<>>]
    /\ last = NoOp
    /\ builder = <<>>
    /\ bump = NoStats
    /\ panic = <<>>
    /\ ub = FALSE
    /\ registry = <<>>
    /\ autotraits \in AutoTraitChoices
    /\ regions = <<>>
    /\ handles = <<>>

\* std::thread::spawn(move || { let d = s; ... }): the closure, and so the value it
\* captures, has to be Send
ThreadMove(s, d) ==
    /\ mode = "owned" /\ panic = <<>> /\ vals[s] # <<>> /\ vals[d] = <<>>
    /\ ThreadOf(s) # ThreadOf(d)
    /\ Owned_auto(autotraits).send
    /\ vals' = [vals EXCEPT ![d] = vals[s], ![s] = <<>>]
    /\ origin' = [origin EXCEPT ![d] = origin[s], ![s] = <<>>]
    /\ last' = [NoOp EXCEPT !.op = "send", !.src = s, !.dst = d]
    /\ UNCHANGED <<aux, debug, tp, mode, mem, builder, bump, panic, ub>>

\* std::thread::scope(|sc| sc.spawn(|| s.m())): the reference the closure captures has to
\* be Send, so the value has to be Sync; the other thread calls m through it
ThreadShare(s, m) ==
    /\ mode = "owned" /\ panic = <<>> /\ vals[s] # <<>>
    /\ Owned_auto(autotraits).sync
    /\ LET r == Dispatch(mem, vals[s][1], m) IN
         /\ last' = [NoOp EXCEPT !.op = "share", !.src = s, !.method = m,
                                 !.ub = r.ub, !.ret = r.val]
         /\ ub' = (ub \/ r.ub)
    /\ UNCHANGED <<aux, debug, tp, mode, mem, vals, origin, builder, bump, panic>>

NextThread ==
    \/ \E s \in Slots, i \in VariantIdx, addr \in AnyAddrs :
         \E d \in DataOf(TypeOf(i)) : Construct(s, i, d, addr)
    \/ \E s \in Slots, d \in Slots : ThreadMove(s, d)
    \/ \E s \in Slots, m \in DispatchMethods : ThreadShare(s, m)
    \/ \E s \in Slots : Drop(s)

SpecThread == InitThread /\ [][NextThread]_vars

(***************************************************************************)
(* Several builders and the regions they are bound to                      *)
(***************************************************************************)
MaxRegions == 2
MaxBuilders == 2

RegionIds == 1..MaxRegions
BuilderIds == 1..MaxBuilders

\* a region is "none" before it is created, "user" when the caller made it with
\* Bump::new(), "owned" when a builder constructor made it, "leaked" when its builder is
\* gone and it was not freed, "freed" when it was given back
InitRegion ==
    /\ debug \in BOOLEAN
    /\ tp = <<>>
    /\ mode = "regions"
    /\ mem = <<>>
    /\ vals = <<>>
    /\ origin = <<>>
    /\ last = <<>>
    /\ builder = <<>>
    /\ bump = <<>>
    /\ panic = <<>>
    /\ ub = FALSE
    /\ registry = <<>>
    /\ autotraits = <<>>
    /\ regions = [r \in RegionIds |-> "none"]
    /\ handles = [b \in BuilderIds |-> <<>>]

\* the builders in scope that are bound to region r
BoundTo(hs, r) == {b \in DOMAIN hs : hs[b] # <<>> /\ hs[b][1].region = r}

\* a constructor that hands out a region another builder already owns
FreshRegions_reuse(rs) == {r \in DOMAIN rs : rs[r] \in {"none", "owned"}}

\* Box::new(::bumpalo::Bump::new()) and ::typed_arena::Arena::new(): a region that did
\* not exist before
FreshRegions(rs) == {r \in DOMAIN rs : rs[r] = "none"}

\* the regions a caller can pass as `&'a Bump`: any Bump of the caller that is alive; a
\* shared reference can be taken however many builders hold one already
BorrowableRegions(rs) == {r \in DOMAIN rs : rs[r] = "user"}

RegionFrame == UNCHANGED <<debug, tp, mode, mem, vals, origin, last, builder, bump, panic, ub,
                           registry, autotraits>>

\* let arena = Bump::new(); in the caller
UserBumpNew(r) ==
    /\ regions[r] = "none"
    /\ regions' = [regions EXCEPT ![r] = "user"]
    /\ UNCHANGED handles
    /\ RegionFrame

\* with_bumpalo()
WithBumpalo(b, r) ==
    /\ handles[b] = <<>>
    /\ r \in FreshRegions(regions)
    /\ regions' = [regions EXCEPT ![r] = "owned"]
    /\ handles' = [handles EXCEPT ![b] = <<[kind |-> "Bumpalo", owned |-> TRUE, region |-> r]>>]
    /\ RegionFrame

\* with_typed_arena(): the arenas of the variants, taken as one region
WithTypedArena(b, r) ==
    /\ handles[b] = <<>>
    /\ r \in FreshRegions(regions)
    /\ regions' = [regions EXCEPT ![r] = "owned"]
    /\ handles' = [handles EXCEPT ![b] = <<[kind |-> "Typed", owned |-> TRUE, region |-> r]>>]
    /\ RegionFrame

\* with_external_bumpalo(&arena)
WithExternalBumpalo(b, r) ==
    /\ handles[b] = <<>>
    /\ r \in BorrowableRegions(regions)
    /\ handles' = [handles EXCEPT ![b] = <<[kind |-> "Bumpalo", owned |-> FALSE, region |-> r]>>]
    /\ UNCHANGED regions
    /\ RegionFrame

\* builder b goes out of scope
DropHandle(b) ==
    /\ handles[b] # <<>>
    /\ handles' = [handles EXCEPT ![b] = <<>>]
    /\ regions' = [regions EXCEPT ![handles[b][1].region] =
                      IF handles[b][1].kind = "Typed" THEN "freed"
                      ELSE IF handles[b][1].owned THEN "leaked"
                      ELSE @]
    /\ RegionFrame

\* the caller's Bump goes out of scope: no builder borrows it any more
UserBumpDrop(r) ==
    /\ regions[r] = "user"
    /\ BoundTo(handles, r) = {}
    /\ regions' = [regions EXCEPT ![r] = "freed"]
    /\ UNCHANGED handles
    /\ RegionFrame

NextRegion ==
    \/ \E r \in RegionIds : UserBumpNew(r)
    \/ \E b \in BuilderIds, r \in RegionIds : WithBumpalo(b, r)
    \/ \E b \in BuilderIds, r \in RegionIds : WithTypedArena(b, r)
    \/ \E b \in BuilderIds, r \in RegionIds : WithExternalBumpalo(b, r)
    \/ \E b \in BuilderIds : DropHandle(b)
    \/ \E r \in RegionIds : UserBumpDrop(r)

SpecRegion == InitRegion /\ [][NextRegion]_vars

(***************************************************************************)
(* The layout of the generated types                                       *)
(***************************************************************************)
\* size and alignment, in bytes, of the field types on a 64-bit target
Usize == [size |-> 8, align |-> 8]
U8Field == [size |-> 1, align |-> 1]
PhantomData == [size |-> 0, align |-> 1]

AlignUp(n, a) == ((n + a - 1) \div a) * a

\* the offset after the fields are laid out one after the other from offset off
RECURSIVE EndOffset(_, _)
EndOffset(fields, off) ==
    IF fields = <<>> THEN off
    ELSE EndOffset(Tail(fields), AlignUp(off, Head(fields).align) + Head(fields).size)

RECURSIVE MaxAlign(_)
MaxAlign(fields) ==
    IF fields = <<>> THEN 1
    ELSE LET m == MaxAlign(Tail(fields))
         IN IF Head(fields).align > m THEN Head(fields).align ELSE m

\* the layout of a struct of these fields: its size is a multiple of its alignment
StructLayout(fields) ==
    [size |-> AlignUp(EndOffset(fields, 0), MaxAlign(fields)), align |-> MaxAlign(fields)]

\* a tagged pointer that keeps the tag in a byte of its own next to the address
TaggedPtrFields_tagByte == <<Usize, U8Field>>

\* struct TaggedPtr<T> { ptr: usize, _phantom: PhantomData<T> }
TaggedPtrFields == <<Usize, PhantomData>>

TaggedPtr_layout == StructLayout(TaggedPtrFields)

\* struct Enum(TaggedPtr<()>)
Owned_layout == StructLayout(<<TaggedPtr_layout>>)

\* struct Enum<'a>(TaggedPtr<()>, PhantomData<&'a ()>)
Arena_layout == StructLayout(<<TaggedPtr_layout, PhantomData>>)

\* const _: () = assert!(size_of::<Enum>() == 8)
size_assertion(l) == l.size = 8

(***************************************************************************)
(* The declaration of an enum of n variants and the first value built from *)
(* it                                                                      *)
(***************************************************************************)
\* the numbers of variants declared, and the positions of the variants built
DeclCounts == {1, 2, 3, 127, 128, 129, 130, 200, 256, 257, 300}
DeclPositions == {0, 1, 2, 126, 127, 128, 129, 199, 255}

\* the generated `#[repr(u8)] enum #enum_type_name` of n variants compiles when every
\* discriminant fits a u8
ReprU8Fits(n) == n <= 256

\* process_enum on an enum of n variants: TRUE when the declaration is accepted. The
\* variants are transformed and the implementation is generated whatever their number
process_enum(n) == ReprU8Fits(n)

InitDecl ==
    /\ debug \in BOOLEAN
    /\ tp = <<>>
    /\ mode = "decl"
    /\ mem = <<>>
    /\ vals = <<>>
    /\ origin = <<>>
    /\ last = <<>>
    /\ builder = <<>>
    /\ bump = <<>>
    /\ panic = <<>>
    /\ ub = FALSE
    /\ registry = <<>>
    /\ autotraits = <<>>
    /\ regions = <<>>
    /\ handles = <<>>

\* #[tagged_dispatch(...)] enum E { V0, ..., V(n-1) }
Declare(n) ==
    /\ registry = <<>>
    /\ registry' = <<[n |-> n, accepted |-> process_enum(n), built |-> <<>>]>>
    /\ UNCHANGED <<debug, tp, mode, mem, vals, origin, last, builder, bump, panic, ub,
                   autotraits, regions, handles>>

\* the constructor of the variant at position i, on a block at addr
DeclConstruct(i, addr) ==
    /\ registry # <<>>
    /\ registry[1].accepted
    /\ registry[1].built = <<>>
    /\ i < registry[1].n
    /\ registry' = <<[registry[1] EXCEPT
                        !.built = <<[variant |-> i, addr |-> addr,
                                     res |-> Constructor(debug, addr, i)]>>]>>
    /\ UNCHANGED <<debug, tp, mode, mem, vals, origin, last, builder, bump, panic, ub,
                   autotraits, regions, handles>>

NextDecl ==
    \/ \E n \in DeclCounts : Declare(n)
    \/ \E i \in DeclPositions, addr \in HeapAddrs : DeclConstruct(i, addr)

SpecDecl == InitDecl /\ [][NextDecl]_vars

(***************************************************************************)
(* Methods called on the concrete types, without a wrapped value           *)
(***************************************************************************)
\* the field values of the concrete values the methods are called on
FieldValues == 0..4

DirectData(ty) ==
    IF ty = "Zero" THEN {<<>>} ELSE {<<a, b>> : a \in FieldValues, b \in FieldValues}

InitDirect ==
    /\ debug \in BOOLEAN
    /\ tp = <<>>
    /\ mode = "direct"
    /\ mem = <<>>
    /\ vals = <<>>
    /\ origin = <<>>
    /\ last = NoOp
    /\ builder = <<>>
    /\ bump = <<>>
    /\ panic = <<>>
    /\ ub = FALSE
    /\ registry = <<>>
    /\ autotraits = <<>>
    /\ regions = <<>>
    /\ handles = <<>>

\* value.m() on a value of the concrete type of variant i, or Type::m() when m takes no
\* receiver; origin keeps the value
DirectCall(i, d, m) ==
    /\ origin' = <<[variant |-> i, data |-> d]>>
    /\ last' = [NoOp EXCEPT !.op = "direct", !.method = m, !.ret = Impl(TypeOf(i), m, d)]
    /\ UNCHANGED <<aux, debug, tp, mode, mem, vals, builder, bump, panic, ub>>

NextDirect ==
    \E i \in VariantIdx, m \in MethodNames : \E d \in DirectData(TypeOf(i)) : DirectCall(i, d, m)

SpecDirect == InitDirect /\ [][NextDirect]_vars

(***************************************************************************)
(* Properties                                                              *)
(***************************************************************************)
Live(s) == vals[s] # <<>>
W(s) == vals[s][1]
O(s) == origin[s][1]

\* the value in slot s is of a concrete type that occupies memory
Sized(s) == SizeOf(TypeOf(O(s).variant)) # 0

IsPrefix(p, q) == Len(p) <= Len(q) /\ SubSeq(q, 1, Len(p)) = p

\* C1: for every tag in 0..127 and every address whose top 7 bits are zero, the
\* null address included, TaggedPtr::new(addr, tag) is built and its tag() is
\* tag and its ptr() is addr
C1_TagAndPtrRoundTrip ==
    \A k \in 1..Len(tp) :
        (tp[k].tag \in 0..127 /\ And(tp[k].addr, TAG_MASK) = {}) =>
            /\ tp[k].res.val # <<>>
            /\ TaggedPtr_tag(tp[k].res.val[1]) = tp[k].tag
            /\ TaggedPtr_ptr(tp[k].res.val[1]) = tp[k].addr

\* tag 127 on the null address, and the largest tag on the largest address
C1_Witness ==
    /\ tp # <<>>
    /\ tp[1].tag = 127
    /\ tp[1].addr = NullAddr
    /\ tp[1].res.val # <<>>
    /\ TaggedPtr_tag(tp[1].res.val[1]) = 127

\* C10: under debug checking TaggedPtr::new(addr, tag) with tag >= 128 panics with
\* a message that starts "Tag must be less than 128" and builds no TaggedPtr
C10_TagOverflowRejected ==
    \A k \in 1..Len(tp) :
        (debug /\ tp[k].tag >= 128) =>
            /\ tp[k].res.val = <<>>
            /\ tp[k].res.panic # <<>>
            /\ IsPrefix(<<"Tag", "must", "be", "less", "than", "128">>, tp[k].res.panic[1])

C10_Witness ==
    /\ debug
    /\ tp # <<>>
    /\ tp[1].tag = 128
    /\ tp[1].addr = NullAddr
    /\ tp[1].res.panic = <<MsgTagRange>>

\* C2 (state part): no free of a block that is not live has happened, every live
\* OwnedValue of a sized type addresses a live block of its own type, and no two live
\* OwnedValues address the same block
C2_State ==
    /\ ~ub
    /\ \A s \in Slots : (Live(s) /\ Sized(s)) =>
          /\ IsLive(mem, TaggedPtr_ptr(W(s)))
          /\ mem[TaggedPtr_ptr(W(s))][1].ty = TypeOf(O(s).variant)
          /\ \A t \in Slots \ {s} : (Live(t) /\ Sized(t)) =>
                TaggedPtr_ptr(W(t)) # TaggedPtr_ptr(W(s))

\* C2 (step part): a block is freed in a step exactly when that step drops the value
\* that addresses it
C2_Step ==
    \A a \in HeapAddrs :
        (IsLive(mem, a) /\ ~IsLive(mem', a)) <=>
            /\ last'.op = "drop"
            /\ Live(last'.src)
            /\ TaggedPtr_ptr(W(last'.src)) = a

\* C2: after any sequence of construct, From, clone and drop on OwnedValues each heap
\* allocation is freed exactly once, at the drop of the one value that owns it; none is
\* freed twice and no live OwnedValue addresses a freed allocation
C2_FreedExactlyOnce ==
    /\ [](mode = "owned" => C2_State)
    /\ [][mode = "owned" => C2_Step]_vars

\* a value was dropped and its block freed while another sized value stays live
C2_Witness ==
    /\ mode = "owned"
    /\ last.op = "drop"
    /\ ~Live(last.src)
    /\ \E a \in HeapAddrs : ~IsLive(mem, a)
    /\ \E t \in Slots : Live(t) /\ Sized(t) /\ TaggedPtr_tag(W(t)) = 1

\* C3: a forwarding method called on a wrapped value (owned or arena) returns what the
\* implementation of the concrete type the value was built from returns for the stored
\* data, and the arm taken is the one of the variant the tag names
C3_DispatchForwards ==
    last.op = "call" =>
        /\ ~last.ub
        /\ tag_type(W(last.src)) = Variants[O(last.src).variant + 1]
        /\ last.ret = Impl(TypeOf(O(last.src).variant), last.method, O(last.src).data)

\* double() of Multiplier {3, 4} through an arena value
C3_Witness ==
    /\ mode = "arena"
    /\ last.op = "call"
    /\ last.method = "double"
    /\ O(last.src).variant = 1
    /\ last.ret = 24

\* C4: every construction path of the variant at 0-based position i (constructor, From,
\* builder method) yields a value whose tag is i and whose tag_type() is the i-th member
\* of the variant enumeration
C4_TagIsDeclarationPosition ==
    (last.op \in {"new", "from", "arena_new"} /\ panic = <<>>) =>
        /\ TaggedPtr_tag(W(last.dst)) = O(last.dst).variant
        /\ tag_type(W(last.dst)) = Variants[O(last.dst).variant + 1]

\* the third variant built through From
C4_Witness ==
    /\ last.op = "from"
    /\ O(last.dst).variant = 2
    /\ TaggedPtr_tag(W(last.dst)) = 2

C4_WitnessArena ==
    /\ last.op = "arena_new"
    /\ O(last.dst).variant = 1
    /\ TaggedPtr_tag(W(last.dst)) = 1

\* the results of every forwarding method on the words a and b agree
SameDispatch(a, b) == \A m \in DispatchMethods : Dispatch(mem, a, m) = Dispatch(mem, b, m)

\* C5 as stated: a clone has the tag of its source, another address, and at clone time
\* the same result for every dispatched method
C5_Original ==
    last.op = "clone" =>
        /\ TaggedPtr_tag(W(last.dst)) = TaggedPtr_tag(W(last.src))
        /\ TaggedPtr_ptr(W(last.dst)) # TaggedPtr_ptr(W(last.src))
        /\ SameDispatch(W(last.dst), W(last.src))

\* C5 (amended): a clone has the tag of its source and at clone time the same result for
\* every dispatched method; its address differs from the source's when the concrete type
\* is not zero-sized
C5_CloneSameTagNewBlock ==
    last.op = "clone" =>
        /\ TaggedPtr_tag(W(last.dst)) = TaggedPtr_tag(W(last.src))
        /\ Sized(last.src) => TaggedPtr_ptr(W(last.dst)) # TaggedPtr_ptr(W(last.src))
        /\ SameDispatch(W(last.dst), W(last.src))
        /\ ~Dispatch(mem, W(last.dst), "compute").ub

\* a Multiplier was cloned
C5_Witness ==
    /\ last.op = "clone"
    /\ O(last.src).variant = 1
    /\ Dispatch(mem, W(last.dst), "compute").val = 12

\* C6 as stated: two OwnedValues built by separate calls from identical data are not
\* equal, a value equals itself, a clone is not equal to its source
C6_Original ==
    mode = "owned" =>
        \A s \in Slots, t \in Slots : (Live(s) /\ Live(t)) =>
            /\ s = t => PartialEq_eq(W(s), W(t))
            /\ (s # t /\ O(s) = O(t)) => ~PartialEq_eq(W(s), W(t))

\* C6 (amended): two OwnedValues built by separate calls (constructor, From or clone) from
\* identical data of a type that is not zero-sized are not equal; a value equals itself
C6_PointerIdentity ==
    mode = "owned" =>
        \A s \in Slots, t \in Slots : (Live(s) /\ Live(t)) =>
            /\ s = t => PartialEq_eq(W(s), W(t))
            /\ (s # t /\ O(s) = O(t) /\ Sized(s)) => ~PartialEq_eq(W(s), W(t))

\* a clone next to its source, with identical data
C6_Witness ==
    /\ mode = "owned"
    /\ last.op = "clone"
    /\ Sized(last.src)
    /\ O(last.src) = O(last.dst)
    /\ ~PartialEq_eq(W(last.src), W(last.dst))

Cmp(s, t) == Ord_cmp(W(s), W(t))

C8_Original ==
    mode = "arena" =>
        /\ last.op = "arena_new" =>
              \A t \in Slots \ {last.dst} : (Live(t) /\ Live(last.dst) /\ O(t) = O(last.dst))
                  => ~PartialEq_eq(W(t), W(last.dst))
        /\ last.op = "copy" => PartialEq_eq(W(last.dst), W(last.src))

\* C8 (amended): two ArenaValues built by two calls of one variant constructor of one
\* builder with identical content of a type that is not zero-sized are unequal, and a
\* bit-copy of an ArenaValue equals its original
C8_ArenaIdentity ==
    mode = "arena" =>
        /\ last.op = "arena_new" =>
              \A t \in Slots \ {last.dst} :
                  (Live(t) /\ Live(last.dst) /\ O(t) = O(last.dst) /\ Sized(t))
                      => ~PartialEq_eq(W(t), W(last.dst))
        /\ last.op = "copy" => PartialEq_eq(W(last.dst), W(last.src))

\* the same Multiplier content built twice on one builder
C8_Witness ==
    /\ mode = "arena"
    /\ last.op = "arena_new"
    /\ \E t \in Slots \ {last.dst} : Live(t) /\ O(t) = O(last.dst) /\ O(t).variant = 1

\* a copy of a value with a non-zero tag
C8_WitnessCopy ==
    /\ mode = "arena"
    /\ last.op = "copy"
    /\ TaggedPtr_tag(W(last.src)) = 1
    /\ PartialEq_eq(W(last.dst), W(last.src))

\* C9: copying an ArenaValue allocates nothing (the region's allocations and stats() are
\* unchanged) and the copy reports the tag and every dispatch result of the original
C9_CopyAllocatesNothing ==
    [][last'.op = "copy" =>
          /\ mem' = mem
          /\ bump' = bump
          /\ Stats(builder'[1], bump') = Stats(builder[1], bump)
          /\ TaggedPtr_tag(vals'[last'.dst][1]) = TaggedPtr_tag(vals[last'.src][1])
          /\ \A m \in DispatchMethods :
                Dispatch(mem', vals'[last'.dst][1], m) = Dispatch(mem, vals[last'.src][1], m)
      ]_vars

\* a sized value of a bump region that holds a chunk was copied
C9_Witness ==
    /\ mode = "arena"
    /\ last.op = "copy"
    /\ builder[1].kind = "Bumpalo"
    /\ bump.allocated_bytes > 0
    /\ Sized(last.src)
    /\ vals[last.dst] = vals[last.src]

\* C11 as stated: an enum declared with more than 128 variants is rejected at
\* declaration, and no value of it is ever constructed
C11_Original ==
    (registry # <<>> /\ registry[1].n > 128) =>
        /\ ~registry[1].accepted
        /\ registry[1].built = <<>>

\* the arena builder is bound to a region it borrows
External == Len(builder) >= 1 /\ ~builder[1].owned

\* C12: on a builder bound to a borrowed region every call of reset() and of clear()
\* panics with a message that says the builder cannot be reset; none returns normally
C12_ExternalResetFails ==
    (mode = "arena" /\ last.op \in {"reset", "clear"} /\ External) =>
        /\ panic # <<>>
        /\ IsPrefix(<<"Cannot", "reset", "builder">>, panic[1])

\* clear() was called on a borrowed region that holds an allocation
C12_Witness ==
    /\ mode = "arena"
    /\ last.op = "clear"
    /\ External
    /\ panic = <<MsgCannotReset>>
    /\ \E a \in HeapAddrs : IsLive(mem, a)

\* C13: a reset() or clear() that fails on a borrowed region leaves the region as it was:
\* every allocation made before the call is still there with its content, and stats()
\* reports what it reported before the call
C13_FailedResetKeepsRegion ==
    [][(mode = "arena" /\ last'.op \in {"reset", "clear"} /\ panic' # <<>>) =>
          /\ mem' = mem
          /\ bump' = bump
          /\ builder' = builder
          /\ Stats(builder'[1], bump') = Stats(builder[1], bump)
      ]_vars

\* reset() failed on a borrowed region that holds an allocation and a chunk
C13_Witness ==
    /\ mode = "arena"
    /\ last.op = "reset"
    /\ External
    /\ panic # <<>>
    /\ bump.allocated_bytes > 0
    /\ \E a \in HeapAddrs : IsLive(mem, a) /\ mem[a][1].owner = "arena"

\* C14 (state part): every usable ArenaValue of a sized type addresses a block of its
\* builder's region that holds what the value was built from, and no read or dispatch
\* through an ArenaValue was undefined behaviour
C14_State ==
    /\ ~ub
    /\ last.op = "call" => ~last.ub
    /\ \A s \in Slots : (Live(s) /\ Sized(s)) =>
          /\ HasBuilder
          /\ IsLive(mem, TaggedPtr_ptr(W(s)))
          /\ mem[TaggedPtr_ptr(W(s))][1] =
                [ty |-> TypeOf(O(s).variant), data |-> O(s).data, owner |-> "arena"]

\* C14 (step part): reset(), clear() and the end of the builder happen only when no
\* ArenaValue of the builder is usable
C14_Step ==
    last'.op \in {"reset", "clear", "drop_builder"} => \A s \in Slots : ~Live(s)

\* C14: no ArenaValue is read or dispatched through after its builder's reset(), clear()
\* or destruction: these need exclusive access, which is not to be had while a value
\* produced by the builder is usable
C14_NoUseAfterReset ==
    /\ [](mode = "arena" => C14_State)
    /\ [][mode = "arena" => C14_Step]_vars

\* a region that had allocations was reset, after the values built in it went out of scope
C14_Witness ==
    /\ mode = "arena"
    /\ last.op = "reset"
    /\ panic = <<>>
    /\ bump.allocated_bytes > 0
    /\ mem = EmptyHeap

\* C15 as stated: after reset() on a builder that owns a bump region, stats() reports
\* allocated_bytes at or below what it reported on the fresh builder
C15_Original ==
    (mode = "arena" /\ last.op = "reset" /\ panic = <<>> /\ HasBuilder
        /\ builder[1] = [kind |-> "Bumpalo", owned |-> TRUE]) =>
        Stats(builder[1], bump).allocated_bytes <= Stats(builder[1], BumpNew).allocated_bytes

\* C16: double() has a default body that calls compute(); called through a wrapped value
\* of a variant type that does not write double() itself (Adder, Zero) it returns twice
\* what compute() of that same variant type returns for the stored data
C16_DefaultBodyOnVariant ==
    (last.op = "call" /\ last.method = "double"
        /\ TypeOf(O(last.src).variant) \in {"Adder", "Zero"}) =>
        /\ ~last.ub
        /\ TypeOf(O(last.src).variant) = "Adder" =>
              last.ret = 2 * (O(last.src).data[1] + O(last.src).data[2])
        /\ TypeOf(O(last.src).variant) = "Zero" => last.ret = 0

\* double() through an arena value built from Adder {2, 3}
C16_Witness ==
    /\ mode = "arena"
    /\ last.op = "call"
    /\ last.method = "double"
    /\ O(last.src) = [variant |-> 0, data |-> <<2, 3>>]
    /\ last.ret = 10

\* C18: with Operations and Named attached to one enum, for every value the forwarding
\* methods of both capabilities resolve to the variant the value was built from: name()
\* is that variant's name and compute() is that variant's compute() of the stored data
C18_AllCapabilitiesSameVariant ==
    \A s \in Slots : Live(s) =>
        LET ty == TypeOf(O(s).variant) IN
        /\ \A k \in 1..Len(Traits) : \A m \in dispatch_methods(Traits[k]) :
              ~Dispatch(mem, W(s), m).ub
        /\ Dispatch(mem, W(s), "name").val = ty
        /\ Dispatch(mem, W(s), "compute").val =
              (CASE ty = "Adder" -> O(s).data[1] + O(s).data[2]
                 [] ty = "Multiplier" -> O(s).data[1] * O(s).data[2]
                 [] ty = "Zero" -> 0)

\* name() was called on a Multiplier whose compute() is 12
C18_Witness ==
    /\ last.op = "call"
    /\ last.method = "name"
    /\ last.ret = "Multiplier"
    /\ O(last.src).variant = 1
    /\ Dispatch(mem, W(last.src), "compute").val = 12

\* C17: a method marked #[no_dispatch] (static_info, describe) is not among the forwarding
\* methods generated for the capability, whatever enum the capability is attached to, and
\* called on a concrete type it runs that type's own body where the type writes one
\* (Adder::describe) and the default body otherwise
C17_NoDispatchDirectOnly ==
    /\ \A k \in 1..Len(Traits) : \A x \in Items(Traits[k]) :
          x.no_dispatch => (x.name \notin dispatch_methods(Traits[k]) /\ x.name \notin DispatchMethods)
    /\ (last.op = "direct" /\ last.method = "static_info") => last.ret = <<"Operations trait">>
    /\ (last.op = "direct" /\ last.method = "describe") =>
          LET ty == TypeOf(origin[1].variant)
              d == origin[1].data
          IN last.ret = (CASE ty = "Adder" -> <<"Adder:", d[1], "+", d[2], "=", d[1] + d[2]>>
                           [] ty = "Multiplier" -> <<"Value is", d[1] * d[2]>>
                           [] ty = "Zero" -> <<"Value is", 0>>)

\* Multiplier {3, 4}.describe() ran the default body
C17_Witness ==
    /\ last.op = "direct"
    /\ last.method = "describe"
    /\ origin[1] = [variant |-> 1, data |-> <<3, 4>>]
    /\ last.ret = <<"Value is", 12>>

\* Adder {1, 2}.describe() ran Adder's own body
C17_WitnessOverride ==
    /\ last.op = "direct"
    /\ last.method = "describe"
    /\ origin[1] = [variant |-> 0, data |-> <<1, 2>>]
    /\ last.ret = <<"Adder:", 1, "+", 2, "=", 3>>

\* C19 as stated: a value that holds data of a variant type that is not Send is never
\* moved to another thread, and one that holds data of a variant type that is not Sync
\* is never shared with another thread
C19_Original ==
    /\ last.op = "send" => autotraits[TypeOf(O(last.dst).variant)].send
    /\ last.op = "share" => autotraits[TypeOf(O(last.src).variant)].sync

\* the builders bound to region r that treat it as their own
Owners(r) == {b \in BoundTo(handles, r) : handles[b][1].owned}

\* C20 as stated: no region is bound to two builders at once
C20_Original ==
    \A r \in RegionIds : Cardinality(BoundTo(handles, r)) <= 1

\* C20 (amended): a region made by a builder constructor is bound to exactly the one
\* builder that owns it for as long as that builder exists, no region is bound to two
\* builders that treat it as owned, nor to one that owns it and one that borrows it; a
\* region of the caller is bound to borrowing builders only
C20_OneOwner ==
    \A r \in RegionIds :
        /\ Cardinality(Owners(r)) <= 1
        /\ Owners(r) # {} => BoundTo(handles, r) = Owners(r)
        /\ regions[r] = "owned" <=> Cardinality(Owners(r)) = 1
        /\ regions[r] \in {"none", "leaked", "freed"} => BoundTo(handles, r) = {}

\* one builder owns its region while another borrows a region of the caller
C20_Witness ==
    /\ mode = "regions"
    /\ \E b \in BuilderIds, c \in BuilderIds :
          /\ handles[b] # <<>> /\ handles[b][1].owned /\ handles[b][1].kind = "Bumpalo"
          /\ handles[c] # <<>> /\ ~handles[c][1].owned
          /\ handles[b][1].region # handles[c][1].region

\* two builders borrow the same region of the caller
C20_WitnessShared ==
    /\ mode = "regions"
    /\ \E r \in RegionIds : Cardinality(BoundTo(handles, r)) = 2 /\ Owners(r) = {}

\* what happens to the regions when the set of builders in scope changes
C21_Step ==
    \A b \in BuilderIds :
        /\ (handles[b] = <<>> /\ handles'[b] # <<>> /\ handles'[b][1].owned)
              => /\ regions[handles'[b][1].region] = "none"
                 /\ regions'[handles'[b][1].region] = "owned"
        /\ (handles[b] # <<>> /\ handles'[b] = <<>>)
              => IF handles[b][1].owned
                 THEN regions'[handles[b][1].region] = "freed"
                 ELSE regions'[handles[b][1].region] = regions[handles[b][1].region]

\* C21 as stated: a builder that owns its region creates it when the builder is created
\* and gives its storage back when the builder is destroyed; a region a builder borrows
\* is left as it is when that builder is destroyed
C21_Original == [][C21_Step]_vars

\* C22: the generated owned type and the generated arena type are 8 bytes, the size of
\* the one 64-bit tagged word, and every live value is that one word and nothing else
C22_OneWord ==
    /\ size_assertion(Owned_layout) /\ size_assertion(Arena_layout)
    /\ Cardinality(WordBits) = 8 * Owned_layout.size
    /\ Cardinality(WordBits) = 8 * Arena_layout.size
    /\ \A s \in Slots : Live(s) => Len(vals[s]) = 1 /\ W(s) \subseteq WordBits

\* an arena value and a copy of it are live, the word of each holding a tag that is
\* not zero and the address of an object
C22_Witness ==
    /\ mode = "arena"
    /\ \A s \in Slots : Live(s) /\ TaggedPtr_tag(W(s)) = 1 /\ IsLive(mem, TaggedPtr_ptr(W(s)))

\* what a call of clear() does, next to what reset() does from the same state
C23_Step ==
    (last'.op = "clear") =>
        LET r == ResetOf(builder[1], mem, bump) IN
          /\ panic' = r.panic
          /\ External => panic' = <<MsgCannotReset>>
          /\ panic' = <<>> =>
                /\ \A a \in HeapAddrs : ~IsLive(mem', a)
                /\ mem' = r.mem
          /\ Stats(builder[1], bump').chunk_capacity
                <= Stats(builder[1], r.bump).chunk_capacity

\* C23: clear() fails when reset() would fail from the same state (on a borrowed
\* region), otherwise it leaves no object of the region alive, as reset() does, and the
\* chunk_capacity reported after it is not larger than the one reset() would leave
C23_ClearRefinesReset == [][C23_Step]_vars

\* clear() was called on a builder that owns a bump region in which objects had been placed
C23_Witness ==
    /\ last.op = "clear" /\ panic = <<>>
    /\ builder[1].kind = "Bumpalo" /\ builder[1].owned
    /\ bump.allocated_bytes > 0

\* clear() was called on a builder that borrows its region
C23_WitnessBorrowed ==
    /\ last.op = "clear" /\ panic = <<MsgCannotReset>>
    /\ \E a \in HeapAddrs : IsLive(mem, a)

\* what a drop of the value w in slot last'.src does
C24_Step ==
    (last'.op = "drop") =>
        LET w == vals[last'.src][1]
            p == TaggedPtr_ptr(w)
            t == TaggedPtr_tag(w)
            r == DropOf(mem, w)
        IN /\ p = NullAddr =>
                /\ r.dtors = {} /\ last'.dtors = 0
                /\ mem' = mem /\ panic' = <<>> /\ ub' = ub
           /\ (p # NullAddr /\ t < NumVariants) =>
                /\ r.dtors = {[ty |-> TypeOf(t), addr |-> p]} /\ last'.dtors = 1
                /\ mem' = r.mem /\ panic' = <<>>
                /\ SizeOf(TypeOf(t)) # 0 => ~IsLive(mem', p)
                /\ \A a \in HeapAddrs \ {p} : mem'[a] = mem[a]

\* C24: the drop of an owned value whose address is null runs no destructor, frees
\* nothing and does not fail, whatever the tag is; the drop of a value whose address is
\* not null runs the destructor of the type of its tag on that address, once, and the
\* block at that address is allocated no more; no other block is touched
C24_DropNullIsNoOp == [][C24_Step]_vars

\* a value with the null address was dropped: no destructor ran and the block that is
\* allocated still is
C24_Witness ==
    /\ last.op = "drop" /\ last.dtors = 0 /\ panic = <<>> /\ ~ub
    /\ \E a \in HeapAddrs : IsLive(mem, a)

\* a value with an address that is not null was dropped, and its block is gone
C24_WitnessFreed ==
    /\ last.op = "drop" /\ last.dtors = 1 /\ panic = <<>> /\ ~ub
    /\ mem = EmptyHeap

\* what a call, a clone and a drop do to a value whose tag is the tag of no variant
C25_Step ==
    (/\ last'.op \in {"call", "clone", "drop"}
     /\ TaggedPtr_tag(vals[last'.src][1]) >= NumVariants)
       => /\ panic' = <<MsgInvalidTag>>
          /\ ~ub'
          /\ last'.ret = 0
          /\ mem' = mem

\* C25 as stated: a forwarding method, a clone or a drop on a value whose tag is the tag
\* of no declared variant stops with the panic for an invalid tag; it forwards to no
\* implementation, returns nothing and leaves the memory as it was
C25_Original == [][C25_Step]_vars

\* the names of all the parameters of a signature, in order
ParamNames(sig) == [k \in 1..Len(sig.params) |-> sig.params[k].name]

\* C26 as stated: the forwarding method generated for a capability method has the receiver
\* kind, the parameter list and the return type of that method, and the call in its arms
\* passes every parameter, in the order of the signature
C26_Original ==
    (mode = "sig" /\ Len(registry) = 1 /\ registry[1].gen # <<>>) =>
        LET sig == registry[1].sig
            gen == registry[1].gen[1]
        IN /\ gen.receiver = sig.receiver
           /\ gen.params = sig.params
           /\ gen.output = sig.output
           /\ gen.call = ParamNames(sig)

\* the operations that produce a wrapped value by a call of its own
Producers == {"new", "from", "clone", "arena_new"}

\* C27 as stated: a value just produced by a constructor, a From conversion, a clone or a
\* builder method has an address no other live value has, and any two live owned values
\* have distinct addresses, whatever their concrete types are
C27_Original ==
    /\ (last.op \in Producers /\ panic = <<>>) =>
          \A t \in Slots \ {last.dst} :
              Live(t) => TaggedPtr_ptr(W(t)) # TaggedPtr_ptr(W(last.dst))
    /\ mode = "owned" =>
          \A s \in Slots, t \in Slots :
              (s # t /\ Live(s) /\ Live(t)) => TaggedPtr_ptr(W(s)) # TaggedPtr_ptr(W(t))

\* C27 (amended): the same for values of concrete types that are not zero-sized
C27_DistinctAddresses ==
    /\ (last.op \in Producers /\ panic = <<>>) =>
          \A t \in Slots \ {last.dst} :
              (Live(t) /\ Sized(t) /\ Sized(last.dst))
                  => TaggedPtr_ptr(W(t)) # TaggedPtr_ptr(W(last.dst))
    /\ mode = "owned" =>
          \A s \in Slots, t \in Slots :
              (s # t /\ Live(s) /\ Live(t) /\ Sized(s) /\ Sized(t))
                  => TaggedPtr_ptr(W(s)) # TaggedPtr_ptr(W(t))

\* a From conversion has produced a value next to a live one of the same type and content
C27_Witness ==
    /\ last.op = "from" /\ panic = <<>>
    /\ \E t \in Slots \ {last.dst} :
          /\ Live(t) /\ Sized(t)
          /\ O(t) = O(last.dst)
          /\ TaggedPtr_ptr(W(t)) # TaggedPtr_ptr(W(last.dst))

\* C28: with the debug checks off, TaggedPtr::new(addr, tag) with tag >= 128 and an address
\* whose top 7 bits are clear does not panic; the word it builds reports the tag
\* tag mod 128 and the address addr, and is the word built from addr and tag - 128
C28_HighTagWraps ==
    \A k \in 1..Len(tp) :
        (~debug /\ tp[k].tag >= 128 /\ And(tp[k].addr, TAG_MASK) = {}) =>
            /\ tp[k].res.panic = <<>>
            /\ Len(tp[k].res.val) = 1
            /\ TaggedPtr_tag(tp[k].res.val[1]) = tp[k].tag % 128
            /\ TaggedPtr_tag(tp[k].res.val[1]) = tp[k].tag - 128
            /\ TaggedPtr_ptr(tp[k].res.val[1]) = tp[k].addr
            /\ tp[k].res.val[1] = Or(tp[k].addr, Shl(U8AsUsize(tp[k].tag - 128), TAG_SHIFT))
            /\ tp[k].res = TaggedPtr_new(TRUE, tp[k].addr, tp[k].tag - 128)

\* without debug checks, tag 130 on an address that is not null gave a word that reads
\* as tag 2
C28_Witness ==
    /\ ~debug
    /\ tp # <<>>
    /\ tp[1].tag = 130
    /\ tp[1].addr = {3, 56}
    /\ tp[1].res.val # <<>>
    /\ TaggedPtr_tag(tp[1].res.val[1]) = 2

\* the addresses of the blocks that are allocated
LiveBlocks == {a \in HeapAddrs : IsLive(mem, a)}

\* the slots that hold a live value
LiveSlots == {s \in Slots : Live(s)}

\* C29 as stated: in owned mode the live values and the allocated blocks correspond one
\* to one, each value to the block at its address, and when no value is live no block
\* is allocated
C29_Original ==
    mode = "owned" =>
        /\ \A s \in LiveSlots : TaggedPtr_ptr(W(s)) \in LiveBlocks
        /\ \A s \in LiveSlots, t \in LiveSlots :
              s # t => TaggedPtr_ptr(W(s)) # TaggedPtr_ptr(W(t))
        /\ \A a \in LiveBlocks : \E s \in LiveSlots : TaggedPtr_ptr(W(s)) = a
        /\ LiveSlots = {} => LiveBlocks = {}

\* C29 (amended): the same correspondence between the allocated blocks and the live
\* values of types that are not zero-sized; a value of a zero-sized type has no block
C29_BlocksMatchValues ==
    mode = "owned" =>
        /\ \A s \in LiveSlots : Sized(s) =>
              /\ TaggedPtr_ptr(W(s)) \in LiveBlocks
              /\ mem[TaggedPtr_ptr(W(s))][1].ty = TypeOf(O(s).variant)
        /\ \A s \in LiveSlots : ~Sized(s) => TaggedPtr_ptr(W(s)) \notin LiveBlocks
        /\ \A s \in LiveSlots, t \in LiveSlots :
              (s # t /\ Sized(s) /\ Sized(t)) => TaggedPtr_ptr(W(s)) # TaggedPtr_ptr(W(t))
        /\ \A a \in LiveBlocks : \E s \in LiveSlots : Sized(s) /\ TaggedPtr_ptr(W(s)) = a
        /\ Cardinality(LiveBlocks) = Cardinality({s \in LiveSlots : Sized(s)})
        /\ LiveSlots = {} => mem = EmptyHeap

\* a value was dropped: another is live with its block, and that is the only block
C29_Witness ==
    /\ mode = "owned"
    /\ last.op = "drop"
    /\ \E s \in LiveSlots : Sized(s) /\ LiveBlocks = {TaggedPtr_ptr(W(s))}

\* the last value was dropped and no block is left
C29_WitnessEmpty ==
    /\ mode = "owned"
    /\ last.op = "drop" /\ last.dtors = 1
    /\ LiveSlots = {} /\ mem = EmptyHeap

\* the builder of the run, in scope or gone, uses the bump backend
BumpBackend == mode = "arena" /\ Len(builder) >= 1 /\ builder[1].kind = "Bumpalo"

\* what the steps of an arena run do to the objects placed in the region
C30_Step ==
    /\ BumpBackend => last'.dtors = 0
    /\ BumpBackend =>
          /\ ResetOf(builder[1], mem, bump).dtors = {}
          /\ ClearOf(builder[1], mem, bump).dtors = {}
    /\ (last'.op = "reset" /\ builder[1].kind = "Typed") =>
          /\ panic' = <<>>
          /\ ResetOf(builder[1], mem, bump).dtors = RegionBlocks(mem)
          /\ last'.dtors = Cardinality(RegionBlocks(mem))
          /\ RegionBlocks(mem') = {}
          /\ \A a \in HeapAddrs : ~IsLive(mem', a)

\* C30: with the bump backend no step runs the destructor of an object placed in the
\* region: not the end of the scope of a value, not reset(), not clear(), not the end of
\* the builder; with the typed backend reset() leaves every sub-region empty and runs the
\* destructor of every object the replaced sub-regions held
C30_BumpNeverDrops == [][C30_Step]_vars

\* reset() on a builder that owns a bump region in which objects were placed: the region
\* is empty and no destructor ran
C30_Witness ==
    /\ BumpBackend /\ builder[1].owned
    /\ last.op = "reset" /\ last.dtors = 0 /\ panic = <<>>
    /\ bump.allocated_bytes > 0
    /\ RegionBlocks(mem) = {}

\* reset() on a typed builder that held two objects ran two destructors
C30_WitnessTyped ==
    /\ mode = "arena" /\ Len(builder) >= 1 /\ builder[1].kind = "Typed"
    /\ last.op = "reset" /\ last.dtors = 2
    /\ RegionBlocks(mem) = {}

\* a bump builder went out of scope with two objects in its region: none was dropped
C30_WitnessBuilderGone ==
    /\ BumpBackend /\ Len(builder) = 2
    /\ last.op = "drop_builder" /\ last.dtors = 0
    /\ Cardinality({a \in HeapAddrs : IsLive(mem, a)}) = 2

====
